---- MODULE Spec2Model ----
(***************************************************************************)
(* Model of moho (src/src/index.ts): calendar entries of three kinds       *)
(* (ExactDateEntry, ExactDateWithYearEntry, RelativeDateEntry), the        *)
(* relative-date token parser and the query functions over entry lists.    *)
(*                                                                         *)
(* A Date is modelled by its time value (getTime()): an integer number of  *)
(* ticks, TicksPerDay ticks to the calendar day, day 0 being 0001-01-01 of *)
(* the proleptic Gregorian calendar.  The Date constructor and accessors   *)
(* are computed as the ECMAScript MakeDay / YearFromTime / MonthFromTime / *)
(* DateFromTime / WeekDay operations compute them, so that a date built    *)
(* from an out-of-range day rolls over into the following month.           *)
(***************************************************************************)
EXTENDS Integers, Sequences, FiniteSets

VARIABLES entries, call, result

vars == <<entries, call, result>>

----------------------------------------------------------------------------
(* Bounds of the model *)

\* ticks of the time of day that the model distinguishes (0 is midnight)
TicksPerDay == 2
\* first calendar year the date arguments are drawn from
MinYear == 2023
\* number of consecutive calendar years the date arguments are drawn from
NumYears == 2
\* number of calendar years getNthWeekdayOfMonth is called for
NumNthYears == 28
\* longest entry list the query functions are called with
MaxEntries == 2
\* largest number of weeks asked of getEntriesInNextWeeks
MaxWeeks == 2
\* largest number of months asked of getEntriesInNextMonths
MaxMonths == 2
\* largest number of years asked of getEntriesInNextYears
MaxYears == 1

----------------------------------------------------------------------------
(* The Date object *)

IsLeap(y) == (y % 4 = 0 /\ y % 100 # 0) \/ y % 400 = 0

\* days from 0001-01-01 to the first of January of year y
DayFromYear(y) ==
    365 * (y - 1) + ((y - 1) \div 4) - ((y - 1) \div 100) + ((y - 1) \div 400)

DaysInMonth(y, mi) ==
    IF mi = 1 THEN (IF IsLeap(y) THEN 29 ELSE 28)
    ELSE IF mi \in {3, 5, 8, 10} THEN 30 ELSE 31

\* days of a common year that precede its month of index mi (0 = January)
CumulativeDays == <<0, 31, 59, 90, 120, 151, 181, 212, 243, 273, 304, 334>>

\* days of year y that precede its month of index mi
DaysBeforeMonth(y, mi) ==
    CumulativeDays[mi + 1] + (IF mi > 1 /\ IsLeap(y) THEN 1 ELSE 0)

\* new Date(year, monthIndex, day): local midnight of the day, the month
\* index and the day of the month both carried over when out of range
NewDate(year, monthIndex, day) ==
    LET y == year + (monthIndex \div 12)
        mi == monthIndex % 12
    IN (DayFromYear(y) + DaysBeforeMonth(y, mi) + (day - 1)) * TicksPerDay

\* the calendar day a time value lies in
Day(t) == t \div TicksPerDay

\* the time within the day
TimeWithinDay(t) == t % TicksPerDay

\* Date.prototype.getFullYear
getFullYear(t) ==
    LET n == Day(t)
        y0 == ((n * 400) \div 146097) + 1
    IN IF DayFromYear(y0) > n THEN y0 - 1
       ELSE IF DayFromYear(y0 + 1) <= n THEN y0 + 1
       ELSE y0

\* the index of the month that the day d (from 0) of year y lies in
MonthFromDayInYear(y, d) ==
    CHOOSE mi \in 0..11 :
        /\ DaysBeforeMonth(y, mi) <= d
        /\ d < DaysBeforeMonth(y, mi) + DaysInMonth(y, mi)

\* Date.prototype.getMonth: 0 = January
getMonth(t) ==
    LET y == getFullYear(t)
    IN MonthFromDayInYear(y, Day(t) - DayFromYear(y))

\* Date.prototype.getDate: the day of the month, from 1
getDate(t) ==
    LET y == getFullYear(t)
    IN Day(t) - DayFromYear(y) - DaysBeforeMonth(y, getMonth(t)) + 1

\* Date.prototype.getDay: 0 = Sunday (0001-01-01 was a Monday)
getDay(t) == (Day(t) + 1) % 7

\* Date.prototype.setDate(n) on a copy of t: the time of day is kept
setDate(t, n) == NewDate(getFullYear(t), getMonth(t), n) + TimeWithinDay(t)

\* Date.prototype.setMonth(mi) on a copy of t
setMonth(t, mi) == NewDate(getFullYear(t), mi, getDate(t)) + TimeWithinDay(t)

\* Date.prototype.setFullYear(y) on a copy of t
setFullYear(t, y) == NewDate(y, getMonth(t), getDate(t)) + TimeWithinDay(t)

----------------------------------------------------------------------------
(* Entries *)

ExactDateEntry(name, month, day) ==
    [kind |-> "ExactDateEntry", name |-> name, month |-> month, day |-> day]

ExactDateWithYearEntry(name, month, day, year) ==
    [kind |-> "ExactDateWithYearEntry", name |-> name, month |-> month,
     day |-> day, year |-> year]

RelativeDateEntry(name, occurrence, dayOfWeek, month) ==
    [kind |-> "RelativeDateEntry", name |-> name, occurrence |-> occurrence,
     dayOfWeek |-> dayOfWeek, month |-> month]

\* the absent result of getNthWeekdayOfMonth (a time value is never negative)
null == -1

(* ExactDateEntry *)

\* getNextOccurrence comparing with < where the code compares with <=
ExactDateEntry_getNextOccurrence_notAfter(this, fromDate) ==
    LET year == getFullYear(fromDate)
        nextDate == NewDate(year, this.month - 1, this.day)
    IN IF nextDate < fromDate
       THEN NewDate(year + 1, this.month - 1, this.day)
       ELSE nextDate

ExactDateEntry_getNextOccurrence(this, fromDate) ==
    LET year == getFullYear(fromDate)
        nextDate == NewDate(year, this.month - 1, this.day)
    IN IF nextDate <= fromDate
       THEN NewDate(year + 1, this.month - 1, this.day)
       ELSE nextDate

ExactDateEntry_occursOn(this, date) ==
    getMonth(date) = this.month - 1 /\ getDate(date) = this.day

RECURSIVE ExactDateEntry_rangeLoop(_, _, _, _, _)
\* the for loop of getOccurrencesInRange, from `year` on
ExactDateEntry_rangeLoop(this, year, endYear, startDate, endDate) ==
    IF year > endYear THEN <<>>
    ELSE LET occurrence == NewDate(year, this.month - 1, this.day)
             rest == ExactDateEntry_rangeLoop(this, year + 1, endYear,
                                              startDate, endDate)
         IN IF occurrence >= startDate /\ occurrence <= endDate
            THEN <<occurrence>> \o rest
            ELSE rest

ExactDateEntry_getOccurrencesInRange(this, startDate, endDate) ==
    ExactDateEntry_rangeLoop(this, getFullYear(startDate),
                             getFullYear(endDate), startDate, endDate)

(* ExactDateWithYearEntry *)

\* getNextOccurrence returning the event date itself while it lies ahead
ExactDateWithYearEntry_getNextOccurrence_eventFirst(this, fromDate) ==
    LET currentYear == getFullYear(fromDate)
        eventDate == NewDate(this.year, this.month - 1, this.day)
        anniversaryDate == NewDate(currentYear, this.month - 1, this.day)
    IN IF eventDate > fromDate THEN eventDate
       ELSE IF anniversaryDate <= fromDate
       THEN NewDate(currentYear + 1, this.month - 1, this.day)
       ELSE anniversaryDate

ExactDateWithYearEntry_getNextOccurrence(this, fromDate) ==
    LET currentYear == getFullYear(fromDate)
        anniversaryDate == NewDate(currentYear, this.month - 1, this.day)
    IN IF anniversaryDate <= fromDate
       THEN NewDate(currentYear + 1, this.month - 1, this.day)
       ELSE anniversaryDate

\* occursOn without the comparison of the years
ExactDateWithYearEntry_occursOn_anyYear(this, date) ==
    /\ getMonth(date) = this.month - 1
    /\ getDate(date) = this.day

ExactDateWithYearEntry_occursOn(this, date) ==
    /\ getFullYear(date) = this.year
    /\ getMonth(date) = this.month - 1
    /\ getDate(date) = this.day

ExactDateWithYearEntry_getOccurrencesInRange(this, startDate, endDate) ==
    LET eventDate == NewDate(this.year, this.month - 1, this.day)
    IN IF eventDate >= startDate /\ eventDate <= endDate
       THEN <<eventDate>>
       ELSE <<>>

getAnniversary(this, year) == NewDate(year, this.month - 1, this.day)

getYearsSince(this, date) == getFullYear(date) - this.year

(* RelativeDateEntry *)

\* getNthWeekdayOfMonth without the check of the month of the target date
getNthWeekdayOfMonth_unchecked(year, month, dayOfWeek, occurrence) ==
    LET firstDay == NewDate(year, month - 1, 1)
        firstDayOfWeek == getDay(firstDay)
        daysToAdd == ((dayOfWeek - firstDayOfWeek + 7) % 7)
                     + (occurrence - 1) * 7
    IN NewDate(year, month - 1, 1 + daysToAdd)

getNthWeekdayOfMonth(year, month, dayOfWeek, occurrence) ==
    LET firstDay == NewDate(year, month - 1, 1)
        firstDayOfWeek == getDay(firstDay)
        daysToAdd == ((dayOfWeek - firstDayOfWeek + 7) % 7)
                     + (occurrence - 1) * 7
        targetDate == NewDate(year, month - 1, 1 + daysToAdd)
    IN IF getMonth(targetDate) # month - 1 THEN null ELSE targetDate

\* new Date(9999, 11, 31), the fallback of RelativeDateEntry.getNextOccurrence
Sentinel == NewDate(9999, 11, 31)

\* getNextOccurrence without the second try, for the following year
RelativeDateEntry_getNextOccurrence_oneYear(this, fromDate) ==
    LET year == getFullYear(fromDate)
        first == getNthWeekdayOfMonth(year, this.month, this.dayOfWeek,
                                      this.occurrence)
    IN IF first = null \/ first <= fromDate THEN Sentinel ELSE first

\* getNextOccurrence keeping a date of this year that is not before fromDate
RelativeDateEntry_getNextOccurrence_notBefore(this, fromDate) ==
    LET year == getFullYear(fromDate)
        first == getNthWeekdayOfMonth(year, this.month, this.dayOfWeek,
                                      this.occurrence)
        date == IF first = null \/ first < fromDate
                THEN getNthWeekdayOfMonth(year + 1, this.month,
                                          this.dayOfWeek, this.occurrence)
                ELSE first
    IN IF date = null THEN Sentinel ELSE date

RelativeDateEntry_getNextOccurrence(this, fromDate) ==
    LET year == getFullYear(fromDate)
        first == getNthWeekdayOfMonth(year, this.month, this.dayOfWeek,
                                      this.occurrence)
        date == IF first = null \/ first <= fromDate
                THEN getNthWeekdayOfMonth(year + 1, this.month,
                                          this.dayOfWeek, this.occurrence)
                ELSE first
    IN IF date = null THEN Sentinel ELSE date

\* occursOn without the test of the month
RelativeDateEntry_occursOn_anyMonth(this, date) ==
    IF getDay(date) # this.dayOfWeek THEN FALSE
    ELSE LET firstDay == NewDate(getFullYear(date), this.month - 1, 1)
             firstDayOfWeek == getDay(firstDay)
             daysToAdd == (this.dayOfWeek - firstDayOfWeek + 7) % 7
             expectedDay == 1 + daysToAdd + (this.occurrence - 1) * 7
         IN getDate(date) = expectedDay

RelativeDateEntry_occursOn(this, date) ==
    IF getMonth(date) # this.month - 1 THEN FALSE
    ELSE IF getDay(date) # this.dayOfWeek THEN FALSE
    ELSE LET firstDay == NewDate(getFullYear(date), this.month - 1, 1)
             firstDayOfWeek == getDay(firstDay)
             daysToAdd == (this.dayOfWeek - firstDayOfWeek + 7) % 7
             expectedDay == 1 + daysToAdd + (this.occurrence - 1) * 7
         IN getDate(date) = expectedDay

RECURSIVE RelativeDateEntry_rangeLoop(_, _, _, _, _)
\* the for loop of getOccurrencesInRange, from `year` on
RelativeDateEntry_rangeLoop(this, year, endYear, startDate, endDate) ==
    IF year > endYear THEN <<>>
    ELSE LET occurrence == getNthWeekdayOfMonth(year, this.month,
                                                this.dayOfWeek,
                                                this.occurrence)
             rest == RelativeDateEntry_rangeLoop(this, year + 1, endYear,
                                                 startDate, endDate)
         IN IF occurrence # null /\ occurrence >= startDate
               /\ occurrence <= endDate
            THEN <<occurrence>> \o rest
            ELSE rest

RelativeDateEntry_getOccurrencesInRange(this, startDate, endDate) ==
    RelativeDateEntry_rangeLoop(this, getFullYear(startDate),
                                getFullYear(endDate), startDate, endDate)

(* Dynamic dispatch of the abstract methods of Entry *)

getNextOccurrence(entry, fromDate) ==
    CASE entry.kind = "ExactDateEntry" ->
            ExactDateEntry_getNextOccurrence(entry, fromDate)
      [] entry.kind = "ExactDateWithYearEntry" ->
            ExactDateWithYearEntry_getNextOccurrence(entry, fromDate)
      [] entry.kind = "RelativeDateEntry" ->
            RelativeDateEntry_getNextOccurrence(entry, fromDate)

occursOn(entry, date) ==
    CASE entry.kind = "ExactDateEntry" ->
            ExactDateEntry_occursOn(entry, date)
      [] entry.kind = "ExactDateWithYearEntry" ->
            ExactDateWithYearEntry_occursOn(entry, date)
      [] entry.kind = "RelativeDateEntry" ->
            RelativeDateEntry_occursOn(entry, date)

getOccurrencesInRange(entry, startDate, endDate) ==
    CASE entry.kind = "ExactDateEntry" ->
            ExactDateEntry_getOccurrencesInRange(entry, startDate, endDate)
      [] entry.kind = "ExactDateWithYearEntry" ->
            ExactDateWithYearEntry_getOccurrencesInRange(entry, startDate,
                                                         endDate)
      [] entry.kind = "RelativeDateEntry" ->
            RelativeDateEntry_getOccurrencesInRange(entry, startDate, endDate)

----------------------------------------------------------------------------
(* The query functions *)

RECURSIVE insertByDate_beforeEqual(_, _)
\* p put into the sorted sequence ahead of the pairs of its own date
insertByDate_beforeEqual(sorted, p) ==
    IF sorted = <<>> THEN <<p>>
    ELSE IF Head(sorted).date - p.date >= 0 THEN <<p>> \o sorted
    ELSE <<Head(sorted)>> \o insertByDate_beforeEqual(Tail(sorted), p)

RECURSIVE insertByDate(_, _)
\* p put into the sorted sequence after every pair that does not compare
\* greater than it (Array.prototype.sort is stable)
insertByDate(sorted, p) ==
    IF sorted = <<>> THEN <<p>>
    ELSE IF Head(sorted).date - p.date > 0 THEN <<p>> \o sorted
    ELSE <<Head(sorted)>> \o insertByDate(Tail(sorted), p)

\* the pairs left in the order of the entry list
sortByDate_omitted(pairs) == pairs

RECURSIVE sortByDate(_)
\* .sort((a, b) => a.date.getTime() - b.date.getTime())
sortByDate(pairs) ==
    IF pairs = <<>> THEN <<>>
    ELSE insertByDate(sortByDate(SubSeq(pairs, 1, Len(pairs) - 1)),
                      pairs[Len(pairs)])

\* entries.map(...).filter(...).sort(...) shared by the window queries
entriesUntil(entryList, fromDate, endDate) ==
    LET mapped == [i \in 1..Len(entryList) |->
                     [entry |-> entryList[i],
                      date |-> getNextOccurrence(entryList[i], fromDate)]]
        InWindow(p) == p.date >= fromDate /\ p.date <= endDate
    IN sortByDate(SelectSeq(mapped, InWindow))

\* the two statements with endDate naming the caller's Date object itself
\* (const endDate = fromDate): setDate then moves the caller's date
endDateInDays_aliased(fromDate, days) ==
    LET moved == setDate(fromDate, getDate(fromDate) + days)
    IN [fromDate |-> moved, endDate |-> moved]

\* const endDate = new Date(fromDate); endDate.setDate(endDate.getDate() +
\* days): the time values that the caller's Date object and the new Date
\* object hold after the two statements
endDateInDays(fromDate, days) ==
    [fromDate |-> fromDate,
     endDate |-> setDate(fromDate, getDate(fromDate) + days)]

getEntriesInNextDays(entryList, days, fromDate) ==
    LET dates == endDateInDays(fromDate, days)
    IN entriesUntil(entryList, dates.fromDate, dates.endDate)

getEntriesInNextWeeks(entryList, weeks, fromDate) ==
    getEntriesInNextDays(entryList, weeks * 7, fromDate)

\* const endDate = new Date(fromDate); endDate.setMonth(...): the time
\* values of the caller's Date object and of the new one afterwards
endDateInMonths(fromDate, months) ==
    [fromDate |-> fromDate,
     endDate |-> setMonth(fromDate, getMonth(fromDate) + months)]

getEntriesInNextMonths(entryList, months, fromDate) ==
    LET dates == endDateInMonths(fromDate, months)
    IN entriesUntil(entryList, dates.fromDate, dates.endDate)

\* const endDate = new Date(fromDate); endDate.setFullYear(...): the time
\* values of the caller's Date object and of the new one afterwards
endDateInYears(fromDate, years) ==
    [fromDate |-> fromDate,
     endDate |-> setFullYear(fromDate, getFullYear(fromDate) + years)]

getEntriesInNextYears(entryList, years, fromDate) ==
    LET dates == endDateInYears(fromDate, years)
    IN entriesUntil(entryList, dates.fromDate, dates.endDate)

\* getEntriesOnDate comparing the month and the day of a dated entry and
\* not its year
getEntriesOnDate_anyYear(entryList, date) ==
    LET Occurs(entry) ==
            IF entry.kind = "ExactDateWithYearEntry"
            THEN /\ getMonth(date) = entry.month - 1
                 /\ getDate(date) = entry.day
            ELSE occursOn(entry, date)
    IN SelectSeq(entryList, Occurs)

getEntriesOnDate(entryList, date) ==
    LET Occurs(entry) == occursOn(entry, date)
    IN SelectSeq(entryList, Occurs)

\* getEntriesOnMonthDay asking every entry whether it occurs on the month
\* and day in the first year of Years
getEntriesOnMonthDay_byOccurrence(entryList, month, day) ==
    LET Occurs(entry) == occursOn(entry, NewDate(MinYear, month - 1, day))
    IN SelectSeq(entryList, Occurs)

getEntriesOnMonthDay(entryList, month, day) ==
    LET Matches(entry) ==
            IF entry.kind = "ExactDateEntry"
            THEN entry.month = month /\ entry.day = day
            ELSE IF entry.kind = "ExactDateWithYearEntry"
            THEN entry.month = month /\ entry.day = day
            ELSE FALSE
    IN SelectSeq(entryList, Matches)

getEntriesByType(entryList, type) ==
    LET IsInstance(entry) == entry.kind = type
    IN SelectSeq(entryList, IsInstance)
----------------------------------------------------------------------------
(* The relative-date token parser.  A string is the sequence of its        *)
(* characters.                                                             *)

DAYS_OF_WEEK ==
    << <<"S", "u", "n", "d", "a", "y">>,
       <<"M", "o", "n", "d", "a", "y">>,
       <<"T", "u", "e", "s", "d", "a", "y">>,
       <<"W", "e", "d", "n", "e", "s", "d", "a", "y">>,
       <<"T", "h", "u", "r", "s", "d", "a", "y">>,
       <<"F", "r", "i", "d", "a", "y">>,
       <<"S", "a", "t", "u", "r", "d", "a", "y">> >>

MONTHS ==
    << <<"J", "a", "n">>, <<"F", "e", "b">>, <<"M", "a", "r">>,
       <<"A", "p", "r">>, <<"M", "a", "y">>, <<"J", "u", "n">>,
       <<"J", "u", "l">>, <<"A", "u", "g">>, <<"S", "e", "p">>,
       <<"O", "c", "t">>, <<"N", "o", "v">>, <<"D", "e", "c">> >>

\* the characters the class \d matches, each at its value plus one
DecimalDigits == <<"0", "1", "2", "3", "4", "5", "6", "7", "8", "9">>

isDigit(c) == \E i \in 1..Len(DecimalDigits) : DecimalDigits[i] = c

\* parseInt(c, 10) of a one-digit string
parseDigit(c) == (CHOOSE i \in 1..Len(DecimalDigits) : DecimalDigits[i] = c) - 1

\* String.prototype.includes
includes(str, sub) ==
    \E i \in 1..(Len(str) - Len(sub) + 1) :
        SubSeq(str, i, i + Len(sub) - 1) = sub

\* String.prototype.endsWith
endsWith(str, suffix) ==
    /\ Len(str) >= Len(suffix)
    /\ SubSeq(str, Len(str) - Len(suffix) + 1, Len(str)) = suffix

RECURSIVE findDayOfWeek(_, _)
\* the weekday loop of parseRelativeDate from index i (0-based) on: the
\* first index whose name the string includes, -1 when the loop ends
findDayOfWeek(dateStr, i) ==
    IF i >= Len(DAYS_OF_WEEK) THEN -1
    ELSE IF includes(dateStr, DAYS_OF_WEEK[i + 1]) THEN i
    ELSE findDayOfWeek(dateStr, i + 1)

RECURSIVE findMonth_zeroBased(_, _)
\* the month loop returning the index i where the code returns i + 1
findMonth_zeroBased(dateStr, i) ==
    IF i >= Len(MONTHS) THEN -1
    ELSE IF endsWith(dateStr, MONTHS[i + 1]) THEN i
    ELSE findMonth_zeroBased(dateStr, i + 1)

RECURSIVE findMonth(_, _)
\* the month loop of parseRelativeDate from index i (0-based) on: i + 1 for
\* the first abbreviation the string ends with, -1 when the loop ends
findMonth(dateStr, i) ==
    IF i >= Len(MONTHS) THEN -1
    ELSE IF endsWith(dateStr, MONTHS[i + 1]) THEN i + 1
    ELSE findMonth(dateStr, i + 1)

\* a thrown Error
Throw(message) == [threw |-> TRUE, message |-> message]

parseRelativeDate(dateStr) ==
    IF dateStr = <<>> \/ ~isDigit(dateStr[1])
    THEN Throw("Invalid relative date format")
    ELSE LET occurrence == parseDigit(dateStr[1])
             dayOfWeek == findDayOfWeek(dateStr, 0)
             month == findMonth(dateStr, 0)
         IN IF dayOfWeek = -1 THEN Throw("Invalid day of week")
            ELSE IF month = -1 THEN Throw("Invalid month")
            ELSE [threw |-> FALSE, occurrence |-> occurrence,
                  dayOfWeek |-> dayOfWeek, month |-> month]

\* the white space String.prototype.trim and parseInt strip
WhiteSpace == {" "}

RECURSIVE trimStart(_)
trimStart(str) ==
    IF str # <<>> /\ Head(str) \in WhiteSpace THEN trimStart(Tail(str))
    ELSE str

RECURSIVE trimEnd(_)
trimEnd(str) ==
    IF str # <<>> /\ str[Len(str)] \in WhiteSpace
    THEN trimEnd(SubSeq(str, 1, Len(str) - 1))
    ELSE str

\* String.prototype.trim
trim(str) == trimEnd(trimStart(str))

RECURSIVE split(_, _)
\* String.prototype.split with a one-character separator: the parts between
\* the separators, one more than there are separators
split(str, separator) ==
    IF \A i \in 1..Len(str) : str[i] # separator THEN <<str>>
    ELSE LET i == CHOOSE k \in 1..Len(str) :
                      /\ str[k] = separator
                      /\ \A j \in 1..(k - 1) : str[j] # separator
         IN <<SubSeq(str, 1, i - 1)>>
                \o split(SubSeq(str, i + 1, Len(str)), separator)

\* a Number: NaN, or an integer value
NaN == [nan |-> TRUE]

Number(n) == [nan |-> FALSE, value |-> n]

isNaN(number) == number.nan

RECURSIVE digitsValue(_, _)
\* the value of the decimal digits str read after the value acc
digitsValue(str, acc) ==
    IF str = <<>> THEN acc
    ELSE digitsValue(Tail(str), 10 * acc + parseDigit(Head(str)))

\* the length of the longest prefix of str made of decimal digits
digitPrefix(str) ==
    CHOOSE n \in 0..Len(str) :
        /\ \A i \in 1..n : isDigit(str[i])
        /\ n < Len(str) => ~isDigit(str[n + 1])

\* parseInt(string, 10): leading white space is skipped, a sign is read,
\* then the longest run of digits; what follows the digits is ignored, and
\* the result is NaN only when there is no digit to read
parseInt(string) ==
    LET s == trimStart(string)
        signed == s # <<>> /\ Head(s) \in {"+", "-"}
        body == IF signed THEN Tail(s) ELSE s
        n == digitPrefix(body)
        magnitude == digitsValue(SubSeq(body, 1, n), 0)
    IN IF n = 0 THEN NaN
       ELSE IF signed /\ Head(s) = "-" THEN Number(0 - magnitude)
       ELSE Number(magnitude)

\* the null that parseCSVLine returns in place of an Entry
nullEntry == [kind |-> "null"]

\* the branch of parseCSVLine for a date token holding a '/'
parseExactDate(parts, name, dateStr) ==
    LET fields == split(dateStr, "/")
        monthStr == fields[1]
        dayStr == fields[2]
        month == parseInt(monthStr)
        day == parseInt(dayStr)
        yearStr == trim(parts[3])
        year == parseInt(yearStr)
    IN IF monthStr = <<>> \/ dayStr = <<>> THEN nullEntry
       ELSE IF isNaN(month) \/ isNaN(day) THEN nullEntry
       ELSE IF Len(parts) >= 3 /\ yearStr # <<>> /\ ~isNaN(year)
       THEN ExactDateWithYearEntry(name, month.value, day.value, year.value)
       ELSE ExactDateEntry(name, month.value, day.value)

\* the branch of parseCSVLine for a relative date token: the Error that
\* parseRelativeDate throws is caught
parseRelative(name, dateStr) ==
    LET parsed == parseRelativeDate(dateStr)
    IN IF parsed.threw THEN nullEntry
       ELSE RelativeDateEntry(name, parsed.occurrence, parsed.dayOfWeek,
                              parsed.month)

parseCSVLine(line) ==
    LET parts == split(line, ",")
        name == trim(parts[1])
        dateStr == trim(parts[2])
    IN IF Len(parts) < 2 THEN nullEntry
       ELSE IF name = <<>> \/ dateStr = <<>> THEN nullEntry
       ELSE IF includes(dateStr, <<"/">>)
       THEN parseExactDate(parts, name, dateStr)
       ELSE parseRelative(name, dateStr)
----------------------------------------------------------------------------
(* Inputs *)

Years == MinYear..(MinYear + NumYears - 1)

\* every time value of the years Years
AllDates == NewDate(MinYear, 0, 1)..(NewDate(MinYear + NumYears, 0, 1) - 1)

\* the months (by index) whose 1st and 15th bound the ranges asked of
\* getOccurrencesInRange
RangeMonths == {0, 2, 6, 11}

RangeDates == {NewDate(y, mi, d) : y \in Years, mi \in RangeMonths, d \in {1, 15}}

NthYears == (MinYear - 3)..(MinYear - 3 + NumNthYears - 1)

AnnualEntries == {ExactDateEntry("e", m, d) : m \in 1..12, d \in 1..31}

\* the years of the dated entries: the first two of Years
DatedYears == {MinYear, MinYear + 1}

DatedEntries ==
    {ExactDateWithYearEntry("e", m, d, y) :
        m \in 1..12, d \in 1..31, y \in DatedYears}

RelativeEntries ==
    {RelativeDateEntry("e", n, w, m) : n \in 1..5, w \in 0..6, m \in 1..12}

\* the years asked of getAnniversary
AnniversaryYears == (MinYear - 1)..(MinYear + NumYears)

\* the entries the entry lists are built from: two entries of the same
\* month and day, a leap-day entry, dated entries in and out of the years
\* Years, a weekday every year has and a fifth weekday few years have
Pool ==
    { ExactDateEntry("Today", 1, 19),
      ExactDateEntry("Next Year", 1, 19),
      ExactDateEntry("Tomorrow", 1, 20),
      ExactDateEntry("Leap Day", 2, 29),
      ExactDateWithYearEntry("Past Event", 1, 1, 2000),
      ExactDateWithYearEntry("Event", 1, 20, MinYear + 1),
      RelativeDateEntry("MLK Day", 3, 1, 1),
      RelativeDateEntry("Fifth Thursday", 5, 4, 2) }

\* the from dates of the queries: every time value from 25 December of the
\* first year to 5 March of the next
QueryDates == NewDate(MinYear, 11, 25)..(NewDate(MinYear + 1, 2, 6) - 1)

\* the numbers of days asked of getEntriesInNextDays
QueryDays == {0, 1, 7, 30, 45, 366}

\* the first character of a relative-date token
LeadCharacters == {DecimalDigits[i] : i \in 1..Len(DecimalDigits)} \cup {"x"}

\* the weekday part of a token: a weekday name, a name in lower case, none
WeekdayWords ==
    {DAYS_OF_WEEK[i] : i \in 1..Len(DAYS_OF_WEEK)}
        \cup {<<"m", "o", "n", "d", "a", "y">>, <<>>}

\* the month part of a token: an abbreviation, a full name, none
MonthWords ==
    {MONTHS[i] : i \in 1..Len(MONTHS)} \cup {<<"J", "u", "n", "e">>, <<>>}

Tokens ==
    {<<c>> \o w \o m : c \in LeadCharacters, w \in WeekdayWords,
                        m \in MonthWords} \cup {<<>>}

\* the text on one side of a '/': digits, digits after white space or a
\* sign, digits followed by letters, letters, nothing
NumberWords ==
    { <<"1">>, <<"1", "2">>, <<"0">>, <<" ", "7">>, <<"-", "3">>,
      <<"1", "2", "a", "b", "c">>, <<"a", "b", "c">>, <<>> }

\* the date tokens holding a '/': two sides, and three
SlashTokens ==
    {a \o <<"/">> \o b : a, b \in NumberWords}
        \cup {<<"1", "/", "2", "/", "3">>, <<"1", "/", "2", "/">>}

\* what follows the date token on a line: nothing, or a comma and a year
YearSuffixes ==
    { <<>>, <<",">>, <<",", "2", "0", "0", "0">>,
      <<",", " ", "2", "0", "0", "0", " ">>, <<",", "2", "0", "x">>,
      <<",", "a", "b", "c">> }

\* the name a line starts with, ahead of its first comma
LineNames == {<<"X">>, <<" ", "X", " ">>, <<>>, <<" ">>}

\* the lines given to parseCSVLine: a name and a relative token, a name
\* and a token with a '/' and what follows it, a line without a comma
Lines ==
    {<<"X", ",">> \o t : t \in Tokens}
        \cup {n \o <<",">> \o t \o y :
                 n \in LineNames, t \in SlashTokens, y \in YearSuffixes}
        \cup {n \o <<",", " ">> \o t \o <<" ">> \o y :
                 n \in LineNames,
                 t \in {<<"3", "M", "o", "n", "d", "a", "y", "J", "a", "n">>,
                        <<"1", "/", "1", "9">>},
                 y \in YearSuffixes}
        \cup {<<>>, <<"I", "n", "v", "a", "l", "i", "d">>}

----------------------------------------------------------------------------
(* The state machine: a caller holding an entry list calls one operation   *)
(* at a time; call records the operation in progress and its arguments,    *)
(* result what it returned.                                                *)

Idle == [op |-> "idle"]

CallGetNextOccurrence ==
    /\ call = Idle
    /\ \E i \in DOMAIN entries, fromDate \in AllDates :
          /\ call' = [op |-> "getNextOccurrence", this |-> i,
                      fromDate |-> fromDate]
          /\ result' = getNextOccurrence(entries[i], fromDate)
    /\ UNCHANGED entries

CallOccursOn ==
    /\ call = Idle
    /\ \E i \in DOMAIN entries, date \in AllDates :
          /\ call' = [op |-> "occursOn", this |-> i, date |-> date]
          /\ result' = occursOn(entries[i], date)
    /\ UNCHANGED entries

CallGetOccurrencesInRange ==
    /\ call = Idle
    /\ \E i \in DOMAIN entries, startDate \in RangeDates,
          endDate \in RangeDates :
          /\ call' = [op |-> "getOccurrencesInRange", this |-> i,
                      startDate |-> startDate, endDate |-> endDate]
          /\ result' = getOccurrencesInRange(entries[i], startDate, endDate)
    /\ UNCHANGED entries

CallGetAnniversary ==
    /\ call = Idle
    /\ \E i \in DOMAIN entries, year \in AnniversaryYears :
          /\ entries[i].kind = "ExactDateWithYearEntry"
          /\ call' = [op |-> "getAnniversary", this |-> i, year |-> year]
          /\ result' = getAnniversary(entries[i], year)
    /\ UNCHANGED entries

CallGetYearsSince ==
    /\ call = Idle
    /\ \E i \in DOMAIN entries, date \in RangeDates :
          /\ entries[i].kind = "ExactDateWithYearEntry"
          /\ call' = [op |-> "getYearsSince", this |-> i, date |-> date]
          /\ result' = getYearsSince(entries[i], date)
    /\ UNCHANGED entries

\* the call that getNextOccurrence and getOccurrencesInRange make for a year
CallGetNthWeekdayOfMonth ==
    /\ call = Idle
    /\ \E i \in DOMAIN entries, year \in NthYears :
          /\ entries[i].kind = "RelativeDateEntry"
          /\ call' = [op |-> "getNthWeekdayOfMonth", this |-> i,
                      year |-> year]
          /\ result' = getNthWeekdayOfMonth(year, entries[i].month,
                                            entries[i].dayOfWeek,
                                            entries[i].occurrence)
    /\ UNCHANGED entries

CallParseRelativeDate ==
    /\ call = Idle
    /\ \E dateStr \in Tokens :
          /\ call' = [op |-> "parseRelativeDate", dateStr |-> dateStr]
          /\ result' = parseRelativeDate(dateStr)
    /\ UNCHANGED entries

CallParseCSVLine ==
    /\ call = Idle
    /\ \E line \in Lines :
          /\ call' = [op |-> "parseCSVLine", line |-> line]
          /\ result' = parseCSVLine(line)
    /\ UNCHANGED entries

\* the caller constructs an entry and pushes it on its list
AddEntry ==
    /\ call = Idle
    /\ Len(entries) < MaxEntries
    /\ \E entry \in Pool : entries' = Append(entries, entry)
    /\ UNCHANGED <<call, result>>

CallGetEntriesInNextDays ==
    /\ call = Idle
    /\ \E days \in QueryDays, fromDate \in QueryDates :
          /\ call' = [op |-> "getEntriesInNextDays", days |-> days,
                      fromDate |-> fromDate]
          /\ result' = getEntriesInNextDays(entries, days, fromDate)
    /\ UNCHANGED entries

CallGetEntriesInNextWeeks ==
    /\ call = Idle
    /\ \E weeks \in 0..MaxWeeks, fromDate \in QueryDates :
          /\ call' = [op |-> "getEntriesInNextWeeks", weeks |-> weeks,
                      fromDate |-> fromDate]
          /\ result' = getEntriesInNextWeeks(entries, weeks, fromDate)
    /\ UNCHANGED entries

CallGetEntriesInNextMonths ==
    /\ call = Idle
    /\ \E months \in 0..MaxMonths, fromDate \in QueryDates :
          /\ call' = [op |-> "getEntriesInNextMonths", months |-> months,
                      fromDate |-> fromDate]
          /\ result' = getEntriesInNextMonths(entries, months, fromDate)
    /\ UNCHANGED entries

CallGetEntriesInNextYears ==
    /\ call = Idle
    /\ \E years \in 0..MaxYears, fromDate \in QueryDates :
          /\ call' = [op |-> "getEntriesInNextYears", years |-> years,
                      fromDate |-> fromDate]
          /\ result' = getEntriesInNextYears(entries, years, fromDate)
    /\ UNCHANGED entries

CallGetEntriesOnDate ==
    /\ call = Idle
    /\ \E date \in QueryDates :
          /\ call' = [op |-> "getEntriesOnDate", date |-> date]
          /\ result' = getEntriesOnDate(entries, date)
    /\ UNCHANGED entries

CallGetEntriesOnMonthDay ==
    /\ call = Idle
    /\ \E month \in 1..12, day \in 1..31 :
          /\ call' = [op |-> "getEntriesOnMonthDay", month |-> month,
                      day |-> day]
          /\ result' = getEntriesOnMonthDay(entries, month, day)
    /\ UNCHANGED entries

CallGetEntriesByType ==
    /\ call = Idle
    /\ \E type \in {"ExactDateEntry", "ExactDateWithYearEntry",
                    "RelativeDateEntry"} :
          /\ call' = [op |-> "getEntriesByType", type |-> type]
          /\ result' = getEntriesByType(entries, type)
    /\ UNCHANGED entries

\* the caller takes the result
Return ==
    /\ call # Idle
    /\ call' = Idle
    /\ result' = <<>>
    /\ UNCHANGED entries

(* One ExactDateEntry and its methods *)

InitAnnual ==
    /\ entries \in {<<e>> : e \in AnnualEntries}
    /\ call = Idle
    /\ result = <<>>

NextAnnual ==
    \/ CallGetNextOccurrence
    \/ CallOccursOn
    \/ CallGetOccurrencesInRange
    \/ Return

SpecAnnual == InitAnnual /\ [][NextAnnual]_vars

(* One ExactDateWithYearEntry and its methods *)

InitDated ==
    /\ entries \in {<<e>> : e \in DatedEntries}
    /\ call = Idle
    /\ result = <<>>

NextDated ==
    \/ CallGetNextOccurrence
    \/ CallOccursOn
    \/ CallGetOccurrencesInRange
    \/ CallGetAnniversary
    \/ CallGetYearsSince
    \/ Return

SpecDated == InitDated /\ [][NextDated]_vars

(* One RelativeDateEntry and its methods *)

InitRelative ==
    /\ entries \in {<<e>> : e \in RelativeEntries}
    /\ call = Idle
    /\ result = <<>>

NextRelative ==
    \/ CallGetNextOccurrence
    \/ CallOccursOn
    \/ CallGetOccurrencesInRange
    \/ CallGetNthWeekdayOfMonth
    \/ Return

SpecRelative == InitRelative /\ [][NextRelative]_vars

(* One RelativeDateEntry and its getNextOccurrence alone *)

NextRelativeNext ==
    \/ CallGetNextOccurrence
    \/ Return

SpecRelativeNext == InitRelative /\ [][NextRelativeNext]_vars

(* The query functions over a list the caller builds *)

InitQuery ==
    /\ entries = <<>>
    /\ call = Idle
    /\ result = <<>>

NextQuery ==
    \/ AddEntry
    \/ CallGetEntriesInNextDays
    \/ CallGetEntriesInNextWeeks
    \/ CallGetEntriesInNextMonths
    \/ CallGetEntriesInNextYears
    \/ CallGetEntriesOnDate
    \/ CallGetEntriesOnMonthDay
    \/ CallGetEntriesByType
    \/ Return

SpecQuery == InitQuery /\ [][NextQuery]_vars

(* The line parser and the relative-date token parser *)

InitParse ==
    /\ entries = <<>>
    /\ call = Idle
    /\ result = <<>>

NextParse ==
    \/ CallParseRelativeDate
    \/ CallParseCSVLine
    \/ Return

SpecParse == InitParse /\ [][NextParse]_vars
----------------------------------------------------------------------------
(* Properties *)

\* C1: for every ExactDateEntry (month in 1..12, day in 1..31) and every
\* whole-day date d, the entry occurs on the date getNextOccurrence(d)
\* returns.
C1_NextOccurrenceOccurs ==
    (/\ call.op = "getNextOccurrence"
     /\ entries[call.this].kind = "ExactDateEntry"
     /\ TimeWithinDay(call.fromDate) = 0)
        => ExactDateEntry_occursOn(entries[call.this], result)

\* C2: for every ExactDateEntry and every date d, getNextOccurrence(d) is
\* strictly later than d; when the month and day of the entry are those of
\* d, the result lies in the year after d's and is not d.
C2_NextOccurrenceStrictlyLater ==
    (call.op = "getNextOccurrence"
     /\ entries[call.this].kind = "ExactDateEntry")
        => /\ result > call.fromDate
           /\ (/\ getMonth(call.fromDate) = entries[call.this].month - 1
               /\ getDate(call.fromDate) = entries[call.this].day)
                 => /\ getFullYear(result) = getFullYear(call.fromDate) + 1
                    /\ result # call.fromDate

\* a call of getNextOccurrence on the very day of the entry, at midnight,
\* answered with a date of the following year
C2_Witness ==
    /\ call.op = "getNextOccurrence"
    /\ entries[call.this].kind = "ExactDateEntry"
    /\ call.fromDate = NewDate(getFullYear(call.fromDate),
                               entries[call.this].month - 1,
                               entries[call.this].day)
    /\ getMonth(call.fromDate) = entries[call.this].month - 1
    /\ getFullYear(result) = getFullYear(call.fromDate) + 1

\* C3: the output of getEntriesInNextDays(entries, days, from) is sorted
\* ascending by date and every date d of it has from <= d <= from + days;
\* getEntriesInNextWeeks(entries, w, from) likewise with days = 7 * w.
C3_WindowSortedAndBounded ==
    call.op \in {"getEntriesInNextDays", "getEntriesInNextWeeks"}
        => LET days == IF call.op = "getEntriesInNextDays"
                       THEN call.days ELSE 7 * call.weeks
           IN /\ \A i \in 1..(Len(result) - 1) :
                    result[i].date <= result[i + 1].date
              /\ \A i \in 1..Len(result) :
                    /\ call.fromDate <= result[i].date
                    /\ result[i].date <= call.fromDate + days * TicksPerDay

\* getEntriesInNextDays answering with two pairs of different dates, the
\* earlier one from the entry that comes second in the list
C3_Witness ==
    /\ call.op = "getEntriesInNextDays"
    /\ Len(entries) >= 2
    /\ Len(result) = 2
    /\ result[1].date < result[2].date
    /\ result[1].entry = entries[2]
    /\ result[2].entry = entries[1]

\* C4: getEntriesOnMonthDay(entries, month, day) returns, in the order of
\* the list, exactly the ExactDateEntry and ExactDateWithYearEntry entries
\* whose month and day fields are the arguments; no RelativeDateEntry is in
\* the result.
C4_OnMonthDayExactlyFixed ==
    call.op = "getEntriesOnMonthDay"
        => LET hits == {i \in 1..Len(entries) :
                          /\ entries[i].kind \in {"ExactDateEntry",
                                                  "ExactDateWithYearEntry"}
                          /\ entries[i].month = call.month
                          /\ entries[i].day = call.day}
               \* the index in the list of the k-th entry of the result
               at(k) == CHOOSE i \in hits :
                           Cardinality({j \in hits : j < i}) = k - 1
           IN /\ Len(result) = Cardinality(hits)
              /\ \A k \in 1..Len(result) : result[k] = entries[at(k)]
              /\ \A k \in 1..Len(result) :
                    result[k].kind # "RelativeDateEntry"

\* getEntriesOnMonthDay asked for a month and day on which, in some year, a
\* RelativeDateEntry of the list occurs, and answering with another entry
C4_Witness ==
    /\ call.op = "getEntriesOnMonthDay"
    /\ Len(result) >= 1
    /\ \E i \in 1..Len(entries) :
          /\ entries[i].kind = "RelativeDateEntry"
          /\ \E y \in NthYears :
                occursOn(entries[i], NewDate(y, call.month - 1, call.day))

\* C5: an ExactDateWithYearEntry occurs on x if and only if x has the year,
\* month and day of the entry; it does not occur on the date getAnniversary
\* returns for another year, nor on a date of another year that
\* getNextOccurrence returns.
C5_OccursOnlyOnOriginalDate ==
    entries # <<>> /\ entries[1].kind = "ExactDateWithYearEntry"
        => LET this == entries[1]
           IN /\ call.op = "occursOn"
                   => (result <=> /\ getFullYear(call.date) = this.year
                                  /\ getMonth(call.date) + 1 = this.month
                                  /\ getDate(call.date) = this.day)
              /\ (call.op = "getAnniversary" /\ call.year # this.year)
                   => ~occursOn(this, result)
              /\ (call.op = "getNextOccurrence"
                  /\ getFullYear(result) # this.year)
                   => ~occursOn(this, result)

\* getAnniversary answering, for a year other than the entry's, with a date
\* of the entry's month and day on which the entry does not occur
C5_Witness ==
    /\ call.op = "getAnniversary"
    /\ call.year # entries[call.this].year
    /\ getMonth(result) = entries[call.this].month - 1
    /\ getDate(result) = entries[call.this].day
    /\ ~occursOn(entries[call.this], result)

\* C6: for an ExactDateEntry, getOccurrencesInRange(start, end) is strictly
\* ascending, holds at most one date of each calendar year of start's to
\* end's, and holds exactly the whole-day dates d with start <= d <= end on
\* which the entry occurs.
C6_RangeIsTheOccurrences ==
    (call.op = "getOccurrencesInRange"
     /\ entries[call.this].kind = "ExactDateEntry")
        => LET this == entries[call.this]
           IN /\ \A i \in 1..(Len(result) - 1) : result[i] < result[i + 1]
              /\ \A i, j \in 1..Len(result) :
                    getFullYear(result[i]) = getFullYear(result[j]) => i = j
              /\ \A i \in 1..Len(result) :
                    /\ getFullYear(result[i]) >= getFullYear(call.startDate)
                    /\ getFullYear(result[i]) <= getFullYear(call.endDate)
                    /\ call.startDate <= result[i]
                    /\ result[i] <= call.endDate
                    /\ occursOn(this, result[i])
              /\ \A d \in call.startDate..call.endDate :
                    (TimeWithinDay(d) = 0 /\ occursOn(this, d))
                        => \E i \in 1..Len(result) : result[i] = d

\* C7: getNthWeekdayOfMonth(year, month, dayOfWeek, occurrence) returns the
\* date of that month that falls on dayOfWeek with exactly occurrence - 1
\* earlier days of the month falling on it, and returns null exactly when
\* the month of that year has fewer than occurrence such days.
C7_NthWeekdayOfMonth ==
    call.op = "getNthWeekdayOfMonth"
        => LET this == entries[call.this]
               \* the days of the month that fall on the weekday
               hits == {d \in 1..DaysInMonth(call.year, this.month - 1) :
                          getDay(NewDate(call.year, this.month - 1, d))
                              = this.dayOfWeek}
           IN IF Cardinality(hits) < this.occurrence
              THEN result = null
              ELSE /\ result # null
                   /\ TimeWithinDay(result) = 0
                   /\ getFullYear(result) = call.year
                   /\ getMonth(result) = this.month - 1
                   /\ getDate(result) \in hits
                   /\ Cardinality({d \in hits : d < getDate(result)})
                          = this.occurrence - 1

\* getNthWeekdayOfMonth finding the fifth of a weekday in a February
C7_Witness ==
    /\ call.op = "getNthWeekdayOfMonth"
    /\ entries[call.this].occurrence = 5
    /\ entries[call.this].month = 2
    /\ result # null
    /\ getDate(result) = 29

\* C8: for a RelativeDateEntry with occurrence in 1..5, dayOfWeek in 0..6
\* and month in 1..12, getNextOccurrence(from) never returns the fallback
\* date: the occurrence exists in from's year, later than from, or in the
\* year after.
C8_NeverFallback ==
    (call.op = "getNextOccurrence"
     /\ entries[call.this].kind = "RelativeDateEntry")
        => LET this == entries[call.this]
               year == getFullYear(call.fromDate)
               first == getNthWeekdayOfMonth(year, this.month,
                                             this.dayOfWeek, this.occurrence)
               second == getNthWeekdayOfMonth(year + 1, this.month,
                                              this.dayOfWeek,
                                              this.occurrence)
           IN /\ result # Sentinel
              /\ (first # null /\ first > call.fromDate) \/ second # null

\* C8 as amended: with occurrence in 1..4 getNextOccurrence(from) never
\* returns the fallback date and its result lies in from's year or the year
\* after; with occurrence = 5 it returns the fallback date exactly when the
\* month has no fifth dayOfWeek later than from in from's year and none in
\* the year after.
C8_FallbackOnlyForAbsentFifth ==
    (call.op = "getNextOccurrence"
     /\ entries[call.this].kind = "RelativeDateEntry")
        => LET this == entries[call.this]
               year == getFullYear(call.fromDate)
               \* the occurrence-th dayOfWeek of the month in year y, if any:
               \* the n-th of a weekday is the one day among the days
               \* 7(n-1)+1 .. 7n of the month that falls on it
               nth(y) == {d \in (7 * (this.occurrence - 1) + 1)
                                   ..(7 * this.occurrence) :
                            /\ d <= DaysInMonth(y, this.month - 1)
                            /\ getDay(NewDate(y, this.month - 1, d))
                                   = this.dayOfWeek}
               ahead == {d \in nth(year) :
                           NewDate(year, this.month - 1, d) > call.fromDate}
           IN /\ this.occurrence <= 4
                   => /\ result # Sentinel
                      /\ getFullYear(result) \in {year, year + 1}
              /\ result = Sentinel <=> (ahead = {} /\ nth(year + 1) = {})
              /\ result = Sentinel => this.occurrence = 5

\* getNextOccurrence of a fifth weekday returning the fallback date
C8_Witness ==
    /\ call.op = "getNextOccurrence"
    /\ entries[call.this].kind = "RelativeDateEntry"
    /\ entries[call.this].occurrence = 5
    /\ result = Sentinel

\* C9: getNextOccurrence of an ExactDateWithYearEntry does not depend on
\* the year of the entry: entries of the same month and day and any two
\* years return the same date, which is the date the ExactDateEntry of that
\* month and day returns and is getAnniversary of from's year or of the
\* year after.
C9_NextOccurrenceIgnoresYear ==
    (call.op = "getNextOccurrence"
     /\ entries[call.this].kind = "ExactDateWithYearEntry")
        => LET this == entries[call.this]
               fromYear == getFullYear(call.fromDate)
           IN /\ \A y \in AnniversaryYears \cup {1919} :
                    getNextOccurrence(
                        ExactDateWithYearEntry(this.name, this.month,
                                               this.day, y),
                        call.fromDate) = result
              /\ result = getNextOccurrence(
                              ExactDateEntry(this.name, this.month, this.day),
                              call.fromDate)
              /\ result \in {getAnniversary(this, fromYear),
                             getAnniversary(this, fromYear + 1)}

\* getNextOccurrence, asked before the date of the entry itself, answering
\* with the anniversary in from's year, earlier than the date of the entry
C9_Witness ==
    /\ call.op = "getNextOccurrence"
    /\ entries[call.this].kind = "ExactDateWithYearEntry"
    /\ entries[call.this].year > getFullYear(call.fromDate)
    /\ result = getAnniversary(entries[call.this], getFullYear(call.fromDate))
    /\ result < getAnniversary(entries[call.this], entries[call.this].year)

\* C10: for every N in 1..5, weekday index w in 0..6 and month m in 1..12,
\* parseRelativeDate of the digit N, the name of weekday w and the
\* abbreviation of month m, concatenated, returns occurrence N, dayOfWeek
\* w and month m.
C10_RelativeTokenRoundTrip ==
    call.op = "parseRelativeDate"
        => \A n \in 1..5, w \in 0..6, m \in 1..12 :
              call.dateStr = <<DecimalDigits[n + 1]>> \o DAYS_OF_WEEK[w + 1]
                                 \o MONTHS[m]
                  => result = [threw |-> FALSE, occurrence |-> n,
                               dayOfWeek |-> w, month |-> m]

\* parseRelativeDate of "5SaturdayDec", the last weekday and the last month
\* of the two scans
C10_Witness ==
    /\ call.op = "parseRelativeDate"
    /\ call.dateStr = <<DecimalDigits[6]>> \o DAYS_OF_WEEK[7] \o MONTHS[12]
    /\ result = [threw |-> FALSE, occurrence |-> 5, dayOfWeek |-> 6,
                 month |-> 12]

\* C11: every RelativeDateEntry that parseCSVLine returns has an occurrence
\* in 1..5, a dayOfWeek in 0..6 and a month in 1..12, and a line whose
\* date token has no '/' and starts with one of the digits 0, 6, 7, 8, 9
\* yields no entry.
C11_RelativeFieldsInRange ==
    call.op = "parseCSVLine"
        => /\ result.kind = "RelativeDateEntry"
                => /\ result.occurrence \in 1..5
                   /\ result.dayOfWeek \in 0..6
                   /\ result.month \in 1..12
           /\ LET parts == split(call.line, ",")
                  dateStr == trim(parts[2])
              IN (/\ Len(parts) >= 2
                  /\ dateStr # <<>>
                  /\ ~includes(dateStr, <<"/">>)
                  /\ dateStr[1] \in {"0", "6", "7", "8", "9"})
                     => result = nullEntry

\* C12: when the date token of a line holds a '/', parseCSVLine returns an
\* entry only if the token has exactly two sides and each side is a decimal
\* integer (digits, allowing a sign and surrounding white space); a side
\* that starts with digits followed by other characters, or a second '/',
\* yields no entry.
C12_MalformedNumericYieldsNoEntry ==
    call.op = "parseCSVLine"
        => LET parts == split(call.line, ",")
               dateStr == trim(parts[2])
               fields == split(dateStr, "/")
               validInteger(str) ==
                   LET s == trim(str)
                       body == IF s # <<>> /\ Head(s) \in {"+", "-"}
                               THEN Tail(s) ELSE s
                   IN body # <<>> /\ \A i \in 1..Len(body) : isDigit(body[i])
           IN (/\ Len(parts) >= 2
               /\ includes(dateStr, <<"/">>)
               /\ result # nullEntry)
                  => /\ Len(fields) = 2
                     /\ validInteger(fields[1])
                     /\ validInteger(fields[2])

C14_StableAndAtMostOnce ==
    call.op \in {"getEntriesInNextDays", "getEntriesInNextWeeks",
                 "getEntriesInNextMonths", "getEntriesInNextYears"}
        => \E at \in [1..Len(result) -> 1..Len(entries)] :
              /\ \A j, k \in 1..Len(result) : j # k => at[j] # at[k]
              /\ \A k \in 1..Len(result) :
                    /\ result[k].entry = entries[at[k]]
                    /\ result[k].date
                          = getNextOccurrence(entries[at[k]], call.fromDate)
              /\ \A j, k \in 1..Len(result) :
                    (j < k /\ result[j].date = result[k].date)
                        => at[j] < at[k]

\* getEntriesInNextMonths answering with two different entries on one date,
\* in the order of the list
C14_Witness ==
    /\ call.op = "getEntriesInNextMonths"
    /\ Len(result) = 2
    /\ result[1].date = result[2].date
    /\ result[1].entry # result[2].entry
    /\ result[1].entry = entries[1]
    /\ result[2].entry = entries[2]

\* C15: for a RelativeDateEntry with occurrence in 1..5, dayOfWeek in 0..6
\* and month in 1..12, occursOn(x) is true exactly when
\* getNthWeekdayOfMonth of x's year returns a date and x is of that day;
\* every date that getOccurrencesInRange(start, end) returns satisfies
\* occursOn, and every whole-day date of start..end that satisfies occursOn
\* is returned (by the first part such a date is a day of the entry's
\* month on the entry's weekday, so the dates tried are those days in the
\* years of start to end).
C15_OccursOnAgreesWithRange ==
    LET this == entries[call.this]
        nth(year) == getNthWeekdayOfMonth(year, this.month, this.dayOfWeek,
                                          this.occurrence)
    IN /\ (call.op = "occursOn" /\ this.kind = "RelativeDateEntry")
            => LET date == nth(getFullYear(call.date))
               IN result = (date # null /\ Day(date) = Day(call.date))
       /\ (call.op = "getOccurrencesInRange"
           /\ this.kind = "RelativeDateEntry")
            => /\ \A i \in 1..Len(result) : occursOn(this, result[i])
               /\ \A year \in getFullYear(call.startDate)
                                ..getFullYear(call.endDate) :
                     LET firstDay == NewDate(year, this.month - 1, 1)
                         first == firstDay + TicksPerDay
                                     * ((this.dayOfWeek - getDay(firstDay)
                                         + 7) % 7)
                     IN \A j \in 0..4 :
                           LET x == first + 7 * j * TicksPerDay
                           IN (/\ call.startDate <= x
                               /\ x <= call.endDate
                               /\ occursOn(this, x))
                                  => \E i \in 1..Len(result) : result[i] = x

\* getOccurrencesInRange of a RelativeDateEntry returning the fifth weekday
\* of a month for one year of the range and nothing for the other year
C15_Witness ==
    /\ call.op = "getOccurrencesInRange"
    /\ entries[call.this].kind = "RelativeDateEntry"
    /\ entries[call.this].occurrence = 5
    /\ getFullYear(call.startDate) < getFullYear(call.endDate)
    /\ Len(result) = 1
    /\ occursOn(entries[call.this], result[1])
    /\ getNthWeekdayOfMonth(getFullYear(call.startDate),
                            entries[call.this].month,
                            entries[call.this].dayOfWeek, 5) = null

C17_IncludesOccurrenceOnFrom ==
    call.op = "getEntriesInNextDays"
        => \A i \in 1..Len(entries) :
              (/\ TimeWithinDay(call.fromDate) = 0
               /\ call.days >= 0
               /\ occursOn(entries[i], call.fromDate))
                  => \E k \in 1..Len(result) :
                        /\ result[k].entry = entries[i]
                        /\ result[k].date = call.fromDate

\* C17 (amended): when the from date of getEntriesInNextDays(entries, days,
\* from) is a whole day on which an entry of the list occurs, no pair of
\* the result has the from date: every date of the result is later than
\* from, and the entry is in the result exactly when its next occurrence,
\* which is later than from, is not after from + days.
C17_OccurrenceOnFromComesLater ==
    call.op = "getEntriesInNextDays"
        => \A i \in 1..Len(entries) :
              (/\ TimeWithinDay(call.fromDate) = 0
               /\ call.days >= 0
               /\ occursOn(entries[i], call.fromDate))
                  => LET next == getNextOccurrence(entries[i], call.fromDate)
                     IN /\ \A k \in 1..Len(result) :
                              result[k].date > call.fromDate
                        /\ next > call.fromDate
                        /\ (\E k \in 1..Len(result) :
                               /\ result[k].entry = entries[i]
                               /\ result[k].date = next)
                              <=> next <= call.fromDate
                                            + call.days * TicksPerDay

\* getEntriesInNextDays from a day on which the first entry occurs, the
\* result holding that entry a year later and no pair of the from date
C17_Witness ==
    /\ call.op = "getEntriesInNextDays"
    /\ TimeWithinDay(call.fromDate) = 0
    /\ Len(entries) >= 1
    /\ occursOn(entries[1], call.fromDate)
    /\ Len(result) >= 1
    /\ result[Len(result)].entry = entries[1]
    /\ result[Len(result)].date = call.fromDate + 366 * TicksPerDay

\* C18: every pair (entry, date) that a window query (days, weeks, months,
\* years) returns is an occurrence: entry.occursOn(date) is true, whatever
\* the class of the entry, and getEntriesOnDate(entries, date) holds the
\* entry.
C18_WindowPairsAreOccurrences ==
    call.op \in {"getEntriesInNextDays", "getEntriesInNextWeeks",
                 "getEntriesInNextMonths", "getEntriesInNextYears"}
        => \A k \in 1..Len(result) :
              LET onDate == getEntriesOnDate(entries, result[k].date)
              IN /\ occursOn(result[k].entry, result[k].date)
                 /\ \E j \in 1..Len(onDate) : onDate[j] = result[k].entry

\* C18 (amended): of a pair (entry, date) that a window query returns,
\* entry.occursOn(date) is true when the entry is a RelativeDateEntry; when
\* it is an ExactDateEntry, exactly when the month of the date's year has
\* the entry's day (the date is the entry's month and day and not a date
\* rolled over into the next month); when it is an ExactDateWithYearEntry,
\* exactly when moreover the date's year is the entry's year, so not on an
\* anniversary.  getEntriesOnDate(entries, date) holds the entry exactly
\* when occursOn is true.
C18_WindowPairsOccurUnlessAnniversary ==
    call.op \in {"getEntriesInNextDays", "getEntriesInNextWeeks",
                 "getEntriesInNextMonths", "getEntriesInNextYears"}
        => \A k \in 1..Len(result) :
              LET entry == result[k].entry
                  date == result[k].date
                  onDate == getEntriesOnDate(entries, date)
                  monthHasDay ==
                      entry.day <= DaysInMonth(getFullYear(date),
                                               entry.month - 1)
              IN /\ entry.kind = "RelativeDateEntry"
                      => occursOn(entry, date)
                 /\ entry.kind = "ExactDateEntry"
                      => (occursOn(entry, date) <=> monthHasDay)
                 /\ entry.kind = "ExactDateWithYearEntry"
                      => (occursOn(entry, date)
                             <=> (monthHasDay
                                  /\ getFullYear(date) = entry.year))
                 /\ (\E j \in 1..Len(onDate) : onDate[j] = entry)
                       <=> occursOn(entry, date)

\* a window query returning a dated entry on an anniversary, on which it
\* does not occur, and then an entry on a date on which it occurs
C18_Witness ==
    /\ call.op \in {"getEntriesInNextDays", "getEntriesInNextWeeks",
                    "getEntriesInNextMonths", "getEntriesInNextYears"}
    /\ Len(result) = 2
    /\ result[1].entry.kind = "ExactDateWithYearEntry"
    /\ getFullYear(result[1].date) # result[1].entry.year
    /\ ~occursOn(result[1].entry, result[1].date)
    /\ occursOn(result[2].entry, result[2].date)

====
